---- MODULE Spec2Model ----
(***************************************************************************)
(* The tonemap video filter of libavfilter (vf_tonemap.c): option          *)
(* initialisation, the tone curves, the per-band slice worker and the      *)
(* per-frame filter_frame callback.                                        *)
(*                                                                         *)
(* Sample values are exact extended rationals (finite n/d, +Inf, -Inf,     *)
(* NaN): float rounding and the sign of zero are not represented.  All     *)
(* planes of a frame have the same line size (planar float RGB(A)), so a   *)
(* row pointer advanced by one line size is modelled by the row index.     *)
(***************************************************************************)
EXTENDS Integers, Sequences, FiniteSets, TLC

VARIABLES opts, s, link, pc, in, out, desc, odesc, peak, td, nb_jobs, band, ret,
          hist, call

vars == <<opts, s, link, pc, in, out, desc, odesc, peak, td, nb_jobs, band, ret,
          hist, call>>

(***************************************************************************)
(* Bounds of the model.                                                    *)
(***************************************************************************)
MaxHeight == 3
MaxThreads == 2
Width == 2
MaxSliceHeight == 6
MaxSliceJobs == 6

(***************************************************************************)
(* Extended rational arithmetic: the C float/double operators.             *)
(***************************************************************************)
Abs(x) == IF x < 0 THEN -x ELSE x

RECURSIVE GCD(_, _)
GCD(a, b) == IF b = 0 THEN a ELSE GCD(b, a % b)

\* the finite value n/d (d # 0), in lowest terms with a positive denominator
Rat(n, d) ==
    LET g == GCD(Abs(n), Abs(d))
    IN  IF d < 0 THEN <<(-n) \div g, (-d) \div g>> ELSE <<n \div g, d \div g>>

NaN == <<0, 0>>
PInf == <<1, 0>>
NInf == <<-1, 0>>
Zero == <<0, 1>>
One == <<1, 1>>
Two == <<2, 1>>

isnan(x) == x = NaN
IsInf(x) == x[2] = 0 /\ x[1] # 0
IsFinite(x) == x[2] > 0
Sign(x) == IF x[1] > 0 THEN 1 ELSE IF x[1] < 0 THEN -1 ELSE 0

RNeg(x) == <<-x[1], x[2]>>

RAdd(x, y) ==
    IF isnan(x) \/ isnan(y) THEN NaN
    ELSE IF IsInf(x) THEN (IF IsInf(y) /\ y # x THEN NaN ELSE x)
    ELSE IF IsInf(y) THEN y
    ELSE LET g == GCD(x[2], y[2])
         IN  Rat(x[1] * (y[2] \div g) + y[1] * (x[2] \div g), (x[2] \div g) * y[2])

RSub(x, y) == RAdd(x, RNeg(y))

RMul(x, y) ==
    IF isnan(x) \/ isnan(y) THEN NaN
    ELSE IF IsInf(x) \/ IsInf(y)
         THEN (IF Sign(x) * Sign(y) = 0 THEN NaN ELSE <<Sign(x) * Sign(y), 0>>)
    ELSE LET g1 == GCD(Abs(x[1]), y[2])
             g2 == GCD(Abs(y[1]), x[2])
         IN  Rat((x[1] \div g1) * (y[1] \div g2), (x[2] \div g2) * (y[2] \div g1))

\* x / y: 0/0 and Inf/Inf are NaN, a nonzero x over 0 is an infinity
RDiv(x, y) ==
    IF isnan(x) \/ isnan(y) THEN NaN
    ELSE IF IsInf(y) THEN (IF IsInf(x) THEN NaN ELSE Zero)
    ELSE IF y[1] = 0 THEN (IF Sign(x) = 0 THEN NaN ELSE <<Sign(x), 0>>)
    ELSE IF y[1] < 0 THEN RMul(x, <<-y[2], -y[1]>>)
    ELSE RMul(x, <<y[2], y[1]>>)

\* x > y; every comparison with NaN is false
RGt(x, y) ==
    IF isnan(x) \/ isnan(y) THEN FALSE
    ELSE IF IsInf(x) THEN x = PInf /\ y # PInf
    ELSE IF IsInf(y) THEN y = NInf
    ELSE x[1] * y[2] > y[1] * x[2]

RLe(x, y) == ~isnan(x) /\ ~isnan(y) /\ ~RGt(x, y)

RECURSIVE powi(_, _)
\* pow(x, k) for a natural exponent k
powi(x, k) == IF k = 0 THEN One ELSE RMul(x, powi(x, k - 1))

\* pow(x, e) of libm, for the exponents e that are natural numbers
pow(x, e) == powi(x, e[1])

FFMAX(a, b) == IF RGt(a, b) THEN a ELSE b
FFMAX3(a, b, c) == FFMAX(FFMAX(a, b), c)
FFMIN(a, b) == IF a > b THEN b ELSE a

av_clipf(a, amin, amax) ==
    IF RGt(amin, a) THEN amin ELSE IF RGt(a, amax) THEN amax ELSE a

MIX(x, y, a) == RAdd(RMul(x, RSub(One, a)), RMul(y, a))

Eps == <<1, 1000000>>

(***************************************************************************)
(* Option initialisation.                                                  *)
(***************************************************************************)
TonemapAlgorithm ==
    {"TONEMAP_NONE", "TONEMAP_LINEAR", "TONEMAP_GAMMA", "TONEMAP_CLIP",
     "TONEMAP_REINHARD", "TONEMAP_HABLE", "TONEMAP_MOBIUS"}

NULL == "NULL"

\* init() with the final isnan() fallback left out
init_NoFallback(c) ==
    CASE c.tonemap = "TONEMAP_GAMMA" ->
            IF isnan(c.param) THEN [c EXCEPT !.param = <<9, 5>>] ELSE c
      [] c.tonemap = "TONEMAP_REINHARD" ->
            IF ~isnan(c.param)
            THEN [c EXCEPT !.param = RDiv(RSub(One, c.param), c.param)] ELSE c
      [] c.tonemap = "TONEMAP_MOBIUS" ->
            IF isnan(c.param) THEN [c EXCEPT !.param = <<3, 10>>] ELSE c
      [] OTHER -> c

\* init(): the context c after the switch and the final fallback
init(c) ==
    LET c1 == CASE c.tonemap = "TONEMAP_GAMMA" ->
                     IF isnan(c.param) THEN [c EXCEPT !.param = <<9, 5>>] ELSE c
                [] c.tonemap = "TONEMAP_REINHARD" ->
                     IF ~isnan(c.param)
                     THEN [c EXCEPT !.param = RDiv(RSub(One, c.param), c.param)]
                     ELSE c
                [] c.tonemap = "TONEMAP_MOBIUS" ->
                     IF isnan(c.param) THEN [c EXCEPT !.param = <<3, 10>>] ELSE c
                [] OTHER -> c
    IN  IF isnan(c1.param) THEN [c1 EXCEPT !.param = One] ELSE c1

(***************************************************************************)
(* The tone curves.                                                        *)
(***************************************************************************)
hable(x) ==
    LET a == <<3, 20>>
        b == <<1, 2>>
        c == <<1, 10>>
        d == <<1, 5>>
        e == <<1, 50>>
        f == <<3, 10>>
    IN  RSub(RDiv(RAdd(RMul(x, RAdd(RMul(x, a), RMul(b, c))), RMul(d, e)),
                  RAdd(RMul(x, RAdd(RMul(x, a), b)), RMul(d, f))),
             RDiv(e, f))

\* the divisor of a in mobius()
mobius_adiv(j, pk) == RAdd(RSub(RMul(j, j), RMul(Two, j)), pk)
\* the divisor of b in mobius()
mobius_bdiv(pk) == FFMAX(RSub(pk, One), Eps)
mobius_a(j, pk) ==
    RDiv(RMul(RMul(RNeg(j), j), RSub(pk, One)), mobius_adiv(j, pk))
mobius_b(j, pk) ==
    RDiv(RAdd(RSub(RMul(j, j), RMul(RMul(Two, j), pk)), pk), mobius_bdiv(pk))

\* the return expression of mobius(), given a and b
mobius_curve(x, j, a, b) ==
    RDiv(RMul(RDiv(RAdd(RAdd(RMul(b, b), RMul(RMul(Two, b), j)), RMul(j, j)),
                   RSub(b, a)),
              RAdd(x, a)),
         RAdd(x, b))

mobius(x, j, pk) ==
    IF RLe(x, j) THEN x ELSE mobius_curve(x, j, mobius_a(j, pk), mobius_b(j, pk))

(***************************************************************************)
(* Colour spaces and the luma coefficient table.                           *)
(***************************************************************************)
AVColorSpace ==
    {"AVCOL_SPC_RGB", "AVCOL_SPC_BT709", "AVCOL_SPC_UNSPECIFIED",
     "AVCOL_SPC_RESERVED", "AVCOL_SPC_FCC", "AVCOL_SPC_BT470BG",
     "AVCOL_SPC_SMPTE170M", "AVCOL_SPC_SMPTE240M", "AVCOL_SPC_YCGCO",
     "AVCOL_SPC_BT2020_NCL", "AVCOL_SPC_BT2020_CL", "AVCOL_SPC_SMPTE2085",
     "AVCOL_SPC_CHROMA_DERIVED_NCL", "AVCOL_SPC_CHROMA_DERIVED_CL",
     "AVCOL_SPC_ICTCP"}

\* the tags with a designated initialiser in luma_coefficients[]
LumaDesignated ==
    {"AVCOL_SPC_FCC", "AVCOL_SPC_BT470BG", "AVCOL_SPC_SMPTE170M",
     "AVCOL_SPC_BT709", "AVCOL_SPC_SMPTE240M", "AVCOL_SPC_BT2020_NCL",
     "AVCOL_SPC_BT2020_CL"}

\* luma_coefficients[AVCOL_SPC_NB]: the entries not designated are zero-filled
luma_coefficients ==
    [t \in AVColorSpace |->
        CASE t = "AVCOL_SPC_FCC" ->
                [cr |-> <<3, 10>>, cg |-> <<59, 100>>, cb |-> <<11, 100>>]
          [] t \in {"AVCOL_SPC_BT470BG", "AVCOL_SPC_SMPTE170M"} ->
                [cr |-> <<299, 1000>>, cg |-> <<587, 1000>>, cb |-> <<57, 500>>]
          [] t = "AVCOL_SPC_BT709" ->
                [cr |-> <<1063, 5000>>, cg |-> <<447, 625>>, cb |-> <<361, 5000>>]
          [] t = "AVCOL_SPC_SMPTE240M" ->
                [cr |-> <<53, 250>>, cg |-> <<701, 1000>>, cb |-> <<87, 1000>>]
          [] t \in {"AVCOL_SPC_BT2020_NCL", "AVCOL_SPC_BT2020_CL"} ->
                [cr |-> <<2627, 10000>>, cg |-> <<339, 500>>, cb |-> <<593, 10000>>]
          [] OTHER -> [cr |-> Zero, cg |-> Zero, cb |-> Zero]]

\* &luma_coefficients[tag]: the address of an array element, never a null pointer
AddrOfCoeffs(tag) == tag

(***************************************************************************)
(* tonemap(): one pixel.  The result is <<r_out, b_out, g_out>>.           *)
(***************************************************************************)
\* float luma = cr * r + cg * g + cb * b
Luma(co, r_in, b_in, g_in) ==
    RAdd(RAdd(RMul(co.cr, r_in), RMul(co.cg, g_in)), RMul(co.cb, b_in))

Overbright(luma, desat) == RDiv(FFMAX(RSub(luma, desat), Eps), FFMAX(luma, Eps))

Mix3(r_in, b_in, g_in, luma, overbright) ==
    <<MIX(r_in, luma, overbright), MIX(b_in, luma, overbright),
      MIX(g_in, luma, overbright)>>

DesaturateWith(sc, r_in, b_in, g_in, luma) ==
    Mix3(r_in, b_in, g_in, luma, Overbright(luma, sc.desat))

\* the desaturation block: <<r_out, b_out, g_out>> before the curve
Desaturate(sc, r_in, b_in, g_in) ==
    IF RGt(sc.desat, Zero)
    THEN DesaturateWith(sc, r_in, b_in, g_in,
                        Luma(luma_coefficients[sc.coeffs], r_in, b_in, g_in))
    ELSE <<r_in, b_in, g_in>>

\* the switch over s->tonemap
Curve(sc, sig, pk) ==
    CASE sc.tonemap = "TONEMAP_LINEAR" -> RDiv(RMul(sig, sc.param), pk)
      [] sc.tonemap = "TONEMAP_GAMMA" ->
            IF RGt(sig, <<1, 20>>)
            THEN pow(RDiv(sig, pk), RDiv(One, sc.param))
            ELSE RDiv(RMul(sig, pow(RDiv(<<1, 20>>, pk), RDiv(One, sc.param))),
                      <<1, 20>>)
      [] sc.tonemap = "TONEMAP_CLIP" -> av_clipf(RMul(sig, sc.param), Zero, One)
      [] sc.tonemap = "TONEMAP_HABLE" -> RDiv(hable(sig), hable(pk))
      [] sc.tonemap = "TONEMAP_REINHARD" ->
            RDiv(RMul(RDiv(sig, RAdd(sig, sc.param)), RAdd(pk, sc.param)), pk)
      [] sc.tonemap = "TONEMAP_MOBIUS" -> mobius(sig, sc.param, pk)
      [] OTHER -> sig

\* *r_out *= sig / sig_orig, and so for g and b
Scale3(px, scale) == <<RMul(px[1], scale), RMul(px[2], scale), RMul(px[3], scale)>>

ScaleBy(sc, px, sig_orig, pk) == Scale3(px, RDiv(Curve(sc, sig_orig, pk), sig_orig))

ToneCurve(sc, px, pk) ==
    ScaleBy(sc, px, FFMAX(FFMAX3(px[1], px[3], px[2]), Eps), pk)

tonemap(sc, r_in, b_in, g_in, pk) == ToneCurve(sc, Desaturate(sc, r_in, b_in, g_in), pk)

(***************************************************************************)
(* Pixel formats and frames.                                               *)
(***************************************************************************)
PixFmts == {"AV_PIX_FMT_GBRPF32", "AV_PIX_FMT_GBRAPF32"}

\* av_pix_fmt_desc_get() of a negotiated format
PixFmtDesc(fmt) == [name |-> fmt, alpha |-> (fmt = "AV_PIX_FMT_GBRAPF32")]

HasAlpha(d) == d.alpha

Rows(h) == 0 .. (h - 1)
Cols == 0 .. (Width - 1)

\* do_tonemap_slice(): the band of job jobnr
slice_start(height, jobnr, n) == (height * jobnr) \div n
\* slice_end computed as slice_start plus the rounded-down band height
slice_end_Trunc(height, jobnr, n) == ((height * jobnr) \div n) + (height \div n)
slice_end(height, jobnr, n) == (height * (jobnr + 1)) \div n

\* the stores of one iteration of the tone map loop
\* (r = plane 0, b = plane 1, g = plane 2)
StoreRow(odata, y, px) ==
    [odata EXCEPT ![0][y] = [x \in Cols |-> px[x][1]],
                  ![1][y] = [x \in Cols |-> px[x][2]],
                  ![2][y] = [x \in Cols |-> px[x][3]]]

\* one iteration of the tone map loop: row y of planes 0, 1, 2
TonemapRow(odata, idata, sc, pk, y) ==
    StoreRow(odata, y,
             [x \in Cols |->
                tonemap(sc, idata[0][y][x], idata[1][y][x], idata[2][y][x], pk)])

\* the rows the alpha branch of band jobnr addresses, in and out of the plane
AlphaCopyRows(height, jobnr, n) ==
    { slice_start(height, jobnr, n) + k :
        k \in 0 .. (slice_end(height, jobnr, n) - slice_start(height, jobnr, n) - 1) }
AlphaFillRows(height, jobnr, n) ==
    { slice_start(height, jobnr, n) + y :
        y \in slice_start(height, jobnr, n) .. (slice_end(height, jobnr, n) - 1) }

AlphaRows(d, od, height, jobnr, n) ==
    IF HasAlpha(d) /\ HasAlpha(od) THEN AlphaCopyRows(height, jobnr, n)
    ELSE IF HasAlpha(od) THEN AlphaFillRows(height, jobnr, n)
    ELSE {}

\* the alpha branch of band jobnr, restricted to the rows inside the plane
AlphaStep(odata, idata, d, od, height, jobnr, n) ==
    IF HasAlpha(d) /\ HasAlpha(od)
    THEN [odata EXCEPT ![3] =
            [y \in Rows(height) |->
                IF y \in AlphaCopyRows(height, jobnr, n) THEN idata[3][y] ELSE @[y]]]
    ELSE IF HasAlpha(od)
    THEN [odata EXCEPT ![3] =
            [y \in Rows(height) |->
                IF y \in AlphaFillRows(height, jobnr, n)
                THEN [x \in Cols |-> One] ELSE @[y]]]
    ELSE odata

RECURSIVE TonemapLoop(_, _, _, _, _, _)
\* the tone map loop from row y up to, not including, row yend
TonemapLoop(odata, idata, sc, pk, y, yend) ==
    IF y >= yend THEN odata
    ELSE TonemapLoop(TonemapRow(odata, idata, sc, pk, y), idata, sc, pk, y + 1, yend)

\* a whole run of do_tonemap_slice for job jobnr of n
do_tonemap_slice(odata, idata, sc, tdv, height, jobnr, n) ==
    AlphaStep(TonemapLoop(odata, idata, sc, tdv.peak,
                          slice_start(height, jobnr, n), slice_end(height, jobnr, n)),
              idata, tdv.desc, tdv.odesc, height, jobnr, n)

(***************************************************************************)
(* The filter instance: options, links, frames.                            *)
(***************************************************************************)
\* a TonemapContext right after the options are set (priv is zero-filled)
Context(o) ==
    [tonemap |-> o.tonemap, param |-> o.param, desat |-> o.desat,
     peak |-> o.peak, coeffs |-> NULL]

\* every algorithm with the param option unset and with several set values
AllParams ==
    {NaN, <<1, 10>>, <<1, 4>>, <<3, 10>>, <<1, 2>>, One, <<9, 5>>, Two, <<3, 1>>}
AllOptions ==
    [tonemap : TonemapAlgorithm, param : AllParams, desat : {Two}, peak : {Zero}]

\* the options of the frame-processing runs: every algorithm once, with
\* desaturation on and the peak detected, or with desaturation off and the peak
\* overridden (values whose exact arithmetic stays within machine integers)
MainOptions ==
    { [tonemap |-> c[1], param |-> c[2], desat |-> Two, peak |-> Zero] :
        c \in {<<"TONEMAP_NONE", NaN>>, <<"TONEMAP_LINEAR", NaN>>,
               <<"TONEMAP_CLIP", NaN>>, <<"TONEMAP_REINHARD", <<1, 2>>>>,
               <<"TONEMAP_MOBIUS", NaN>>} }
    \cup
    { [tonemap |-> c[1], param |-> c[2], desat |-> Zero, peak |-> Two] :
        c \in {<<"TONEMAP_HABLE", NaN>>, <<"TONEMAP_GAMMA", <<1, 2>>>>} }

Links == [format : PixFmts, oformat : PixFmts, nb_threads : 1 .. MaxThreads]

NullDesc == [name |-> NULL, alpha |-> FALSE]
NullFrame ==
    [height |-> 0, data |-> <<>>, colorspace |-> NULL, color_trc |-> NULL,
     sigpeak |-> Zero, hdr |-> Zero]
NullTd == [in |-> NULL, out |-> NULL, desc |-> NullDesc, odesc |-> NullDesc,
           peak |-> Zero]
HistInit ==
    [inFree |-> 0, outFree |-> 0, allocs |-> 0, fresh |-> <<>>, dispatched |-> FALSE,
     hdr |-> 0, emitted |-> 0, writes |-> {}, oob |-> {}, exit |-> "none",
     returned |-> NULL]
NoCall == [fn |-> "none"]

\* the (colour space, transfer characteristic) tags of the incoming frames
FrameTags ==
    {<<"AVCOL_SPC_FCC", "AVCOL_TRC_LINEAR">>,
     <<"AVCOL_SPC_UNSPECIFIED", "AVCOL_TRC_UNSPECIFIED">>,
     <<"AVCOL_SPC_YCGCO", "AVCOL_TRC_SMPTE2084">>}
\* what ff_determine_signal_peak() finds for the incoming frames
SignalPeaks == {<<4, 1>>}
\* the sample values an uninitialised buffer may hold
Garbage == {Zero, One}
\* the error codes av_frame_copy_props() may return
CopyPropsErrors == {"AVERROR(ENOMEM)", "AVERROR(EINVAL)"}
\* what the downstream ff_filter_frame() may return
DownstreamResults == {"0", "AVERROR(ENOMEM)"}

\* the <<plane 0, plane 1, plane 2>> samples of the incoming frames
Pixels == << <<One, One, One>>, <<<<10, 1>>, Zero, Zero>> >>

\* the planes of an incoming frame of the given height
InData(h, alpha) ==
    [p \in 0 .. 3 |->
        IF p = 3
        THEN (IF alpha THEN [y \in Rows(h) |-> [x \in Cols |-> Rat(2 * y + 1, 16)]]
                       ELSE <<>>)
        ELSE [y \in Rows(h) |-> [x \in Cols |-> Pixels[((x + y) % 2) + 1][p + 1]]]]

InFrame(h, tag, sp, alpha) ==
    [height |-> h, data |-> InData(h, alpha), colorspace |-> tag[1],
     color_trc |-> tag[2], sigpeak |-> sp, hdr |-> Zero]

\* ff_get_video_buffer(): a frame whose samples are not initialised
GetVideoBuffer(h, alpha, g) ==
    [height |-> h,
     data |-> [p \in 0 .. 3 |->
                 IF p = 3 /\ ~alpha THEN <<>>
                 ELSE [y \in Rows(h) |-> [x \in Cols |-> g]]],
     colorspace |-> "AVCOL_SPC_UNSPECIFIED", color_trc |-> "AVCOL_TRC_UNSPECIFIED",
     sigpeak |-> Zero, hdr |-> Zero]

MainIdle ==
    /\ in = NullFrame /\ out = NullFrame
    /\ desc = NullDesc /\ odesc = NullDesc
    /\ peak = Zero /\ td = NullTd /\ nb_jobs = 0 /\ band = <<>>
    /\ ret = NULL /\ hist = HistInit

Init ==
    /\ opts \in MainOptions
    /\ s = Context(opts)
    /\ link \in Links
    /\ pc = "init"
    /\ MainIdle
    /\ call = NoCall

(***************************************************************************)
(* init()                                                                  *)
(***************************************************************************)
InitFilter ==
    /\ pc = "init"
    /\ s' = init(s)
    /\ hist' = [hist EXCEPT !.returned = "0"]
    /\ pc' = "idle"
    /\ UNCHANGED <<opts, link, in, out, desc, odesc, peak, td, nb_jobs, band, ret, call>>

(***************************************************************************)
(* filter_frame(), statement by statement.                                 *)
(***************************************************************************)
\* entry: the descriptors of the two link formats; either may be NULL
FF_Begin ==
    /\ pc = "idle"
    /\ \E h \in 1 .. MaxHeight, tag \in FrameTags, sp \in SignalPeaks,
          d \in {NullDesc, PixFmtDesc(link.format)},
          od \in {NullDesc, PixFmtDesc(link.oformat)} :
          /\ desc' = d
          /\ odesc' = od
          /\ peak' = s.peak
          /\ out' = NullFrame
          /\ td' = NullTd
          /\ nb_jobs' = 0
          /\ band' = <<>>
          /\ ret' = NULL
          /\ IF d = NullDesc \/ od = NullDesc
             THEN /\ in' = NullFrame
                  /\ hist' = [HistInit EXCEPT !.inFree = 1, !.exit = "no_desc",
                                              !.returned = "AVERROR_BUG"]
                  /\ pc' = "idle"
             ELSE /\ in' = InFrame(h, tag, sp, HasAlpha(d))
                  /\ hist' = HistInit
                  /\ pc' = "get_buffer"
    /\ UNCHANGED <<opts, s, link, call>>

FF_GetBuffer ==
    /\ pc = "get_buffer"
    /\ \E ok \in BOOLEAN, g \in Garbage :
          IF ok
          THEN /\ out' = GetVideoBuffer(in.height, HasAlpha(odesc), g)
               /\ hist' = [hist EXCEPT !.allocs = @ + 1,
                                       !.fresh = GetVideoBuffer(in.height,
                                                     HasAlpha(odesc), g).data]
               /\ pc' = "copy_props"
               /\ UNCHANGED in
          ELSE /\ in' = NullFrame
               /\ hist' = [hist EXCEPT !.inFree = @ + 1, !.exit = "no_buffer",
                                       !.returned = "AVERROR(ENOMEM)"]
               /\ pc' = "idle"
               /\ UNCHANGED out
    /\ UNCHANGED <<opts, s, link, desc, odesc, peak, td, nb_jobs, band, ret, call>>

\* the failure branch with av_frame_free(&out) left out and a fixed code returned
FF_CopyPropsFail_LeakOut(r) ==
    /\ in' = NullFrame
    /\ hist' = [hist EXCEPT !.inFree = @ + 1, !.exit = "copy_props",
                            !.returned = "AVERROR(ENOMEM)"]
    /\ pc' = "idle"
    /\ UNCHANGED out

\* if (ret < 0) { av_frame_free(&in); av_frame_free(&out); return ret; }
FF_CopyPropsFail(r) ==
    /\ in' = NullFrame
    /\ out' = NullFrame
    /\ hist' = [hist EXCEPT !.inFree = @ + 1, !.outFree = @ + 1,
                            !.exit = "copy_props", !.returned = r]
    /\ pc' = "idle"

FF_CopyProps ==
    /\ pc = "copy_props"
    /\ \E r \in {"0"} \cup CopyPropsErrors :
          /\ ret' = r
          /\ IF r # "0"
             THEN FF_CopyPropsFail(r)
             ELSE /\ out' = [out EXCEPT !.colorspace = in.colorspace,
                                        !.color_trc = in.color_trc,
                                        !.sigpeak = in.sigpeak]
                  /\ pc' = "trc"
                  /\ UNCHANGED <<in, hist>>
    /\ UNCHANGED <<opts, s, link, desc, odesc, peak, td, nb_jobs, band, call>>

FF_Trc ==
    /\ pc = "trc"
    /\ out' = IF in.color_trc = "AVCOL_TRC_UNSPECIFIED"
              THEN [out EXCEPT !.color_trc = "AVCOL_TRC_LINEAR"]
              ELSE out
    /\ pc' = "peak"
    /\ UNCHANGED <<opts, s, link, in, desc, odesc, peak, td, nb_jobs, band, ret, hist,
                   call>>

\* ff_determine_signal_peak(in): the peak the frame's side data gives
ff_determine_signal_peak(f) == f.sigpeak

FF_Peak ==
    /\ pc = "peak"
    /\ peak' = IF peak = Zero THEN ff_determine_signal_peak(in) ELSE peak
    /\ pc' = "coeffs"
    /\ UNCHANGED <<opts, s, link, in, out, desc, odesc, td, nb_jobs, band, ret, hist,
                   call>>

\* s->coeffs = &luma_coefficients[in->colorspace]; if (...) s->desat = 0;
ResolveCoeffs(sc, f) ==
    LET c == AddrOfCoeffs(f.colorspace)
    IN  IF RGt(sc.desat, Zero) /\ (f.colorspace = "AVCOL_SPC_UNSPECIFIED" \/ c = NULL)
        THEN [sc EXCEPT !.coeffs = c, !.desat = Zero]
        ELSE [sc EXCEPT !.coeffs = c]

FF_Coeffs ==
    /\ pc = "coeffs"
    /\ s' = ResolveCoeffs(s, in)
    /\ pc' = "execute"
    /\ UNCHANGED <<opts, link, in, out, desc, odesc, peak, td, nb_jobs, band, ret, hist,
                   call>>

\* ff_filter_get_nb_threads(ctx)
ff_filter_get_nb_threads == link.nb_threads

\* td.in = in; ...; execute(ctx, do_tonemap_slice, &td, NULL, FFMIN(h, threads)):
\* the jobs 0 .. nb_jobs-1 are handed to the workers
FF_Execute ==
    /\ pc = "execute"
    /\ td' = [in |-> "in", out |-> "out", desc |-> desc, odesc |-> odesc, peak |-> peak]
    /\ nb_jobs' = FFMIN(out.height, ff_filter_get_nb_threads)
    /\ band' = [j \in 0 .. (FFMIN(out.height, ff_filter_get_nb_threads) - 1) |->
                  [phase |-> "rgb",
                   y |-> slice_start(out.height, j,
                                     FFMIN(out.height, ff_filter_get_nb_threads))]]
    /\ hist' = [hist EXCEPT !.dispatched = TRUE]
    /\ pc' = "running"
    /\ UNCHANGED <<opts, s, link, in, out, desc, odesc, peak, ret, call>>

(***************************************************************************)
(* do_tonemap_slice(), one job: a step per row, then the alpha branch.     *)
(***************************************************************************)
BandRow(j) ==
    /\ pc = "running"
    /\ j \in DOMAIN band
    /\ band[j].phase = "rgb"
    /\ band[j].y < slice_end(out.height, j, nb_jobs)
    /\ out' = [out EXCEPT !.data = TonemapRow(@, in.data, s, td.peak, band[j].y)]
    /\ band' = [band EXCEPT ![j].y = @ + 1]
    /\ hist' = [hist EXCEPT !.writes = @ \cup { <<j, p, band[j].y>> : p \in 0 .. 2 }]
    /\ UNCHANGED <<opts, s, link, pc, in, desc, odesc, peak, td, nb_jobs, ret, call>>

BandAlpha(j) ==
    /\ pc = "running"
    /\ j \in DOMAIN band
    /\ band[j].phase = "rgb"
    /\ band[j].y >= slice_end(out.height, j, nb_jobs)
    /\ LET rows == AlphaRows(td.desc, td.odesc, out.height, j, nb_jobs)
           outside == { r \in rows : r >= out.height }
       IN  /\ out' = [out EXCEPT !.data = AlphaStep(@, in.data, td.desc, td.odesc,
                                                    out.height, j, nb_jobs)]
           /\ hist' = [hist EXCEPT !.writes = @ \cup { <<j, 3, r>> : r \in rows },
                                   !.oob = @ \cup { <<3, r>> : r \in outside }]
           /\ band' = [band EXCEPT ![j].phase = "done"]
           \* a store past the end of the plane either lands in foreign memory
           \* or faults
           /\ \E faults \in {FALSE} \cup { outside # {} } :
                 pc' = IF faults THEN "crashed" ELSE pc
    /\ UNCHANGED <<opts, s, link, in, desc, odesc, peak, td, nb_jobs, ret, call>>

\* execute() returns once every job has returned
ExecuteReturn ==
    /\ pc = "running"
    /\ \A j \in DOMAIN band : band[j].phase = "done"
    /\ pc' = "free_in"
    /\ UNCHANGED <<opts, s, link, in, out, desc, odesc, peak, td, nb_jobs, band, ret,
                   hist, call>>

\* av_frame_free(&in) issued while the jobs may still run
FF_FreeIn_Early ==
    /\ pc \in {"running", "free_in"}
    /\ hist.inFree = 0
    /\ in' = NullFrame
    /\ hist' = [hist EXCEPT !.inFree = @ + 1]
    /\ pc' = IF pc = "free_in" THEN "update_hdr" ELSE pc
    /\ UNCHANGED <<opts, s, link, out, desc, odesc, peak, td, nb_jobs, band, ret, call>>

FF_FreeIn ==
    /\ pc = "free_in"
    /\ in' = NullFrame
    /\ hist' = [hist EXCEPT !.inFree = @ + 1]
    /\ pc' = "update_hdr"
    /\ UNCHANGED <<opts, s, link, out, desc, odesc, peak, td, nb_jobs, band, ret, call>>

\* ff_update_hdr_metadata(out, peak)
FF_UpdateHdr ==
    /\ pc = "update_hdr"
    /\ out' = [out EXCEPT !.hdr = peak]
    /\ hist' = [hist EXCEPT !.hdr = @ + 1]
    /\ pc' = "filter_frame"
    /\ UNCHANGED <<opts, s, link, in, desc, odesc, peak, td, nb_jobs, band, ret, call>>

\* return ff_filter_frame(outlink, out): the frame goes downstream
FF_FilterFrame ==
    /\ pc = "filter_frame"
    /\ \E r \in DownstreamResults :
          hist' = [hist EXCEPT !.emitted = @ + 1, !.exit = "emitted", !.returned = r]
    /\ pc' = "idle"
    /\ UNCHANGED <<opts, s, link, in, out, desc, odesc, peak, td, nb_jobs, band, ret,
                   call>>

Next ==
    \/ InitFilter
    \/ FF_Begin
    \/ FF_GetBuffer
    \/ FF_CopyProps
    \/ FF_Trc
    \/ FF_Peak
    \/ FF_Coeffs
    \/ FF_Execute
    \/ \E j \in 0 .. (MaxThreads - 1) : BandRow(j)
    \/ \E j \in 0 .. (MaxThreads - 1) : BandAlpha(j)
    \/ ExecuteReturn
    \/ FF_FreeIn
    \/ FF_UpdateHdr
    \/ FF_FilterFrame

Spec == Init /\ [][Next]_vars

(***************************************************************************)
(* init() over every algorithm and param value.                            *)
(***************************************************************************)
InitOptions ==
    /\ opts \in AllOptions
    /\ s = Context(opts)
    /\ link = [format |-> "AV_PIX_FMT_GBRPF32", oformat |-> "AV_PIX_FMT_GBRPF32",
               nb_threads |-> 1]
    /\ pc = "init"
    /\ MainIdle
    /\ call = NoCall

SpecInit == InitOptions /\ [][InitFilter]_vars

(***************************************************************************)
(* mobius() as a function of its arguments.                                *)
(***************************************************************************)
\* the <<knee, peak>> pairs and the signal values mobius() is applied to
MobiusKnees ==
    ({<<99, 100>>, <<999, 1000>>, One, <<1001, 1000>>, <<101, 100>>} \X {One})
    \cup ({<<3, 10>>, <<1, 2>>, One, Two} \X {Two, <<4, 1>>})
MobiusSignals == {<<1, 4>>, <<1, 2>>, Two, <<3, 1>>, <<5, 1>>}

PureIdle ==
    /\ opts = [tonemap |-> "TONEMAP_MOBIUS", param |-> NaN, desat |-> Two,
               peak |-> Zero]
    /\ s = Context(opts)
    /\ link = [format |-> "AV_PIX_FMT_GBRPF32", oformat |-> "AV_PIX_FMT_GBRPF32",
               nb_threads |-> 1]
    /\ pc = "pure"
    /\ MainIdle

InitMobius ==
    /\ PureIdle
    /\ \E k \in MobiusKnees, x \in MobiusSignals :
          call = [fn |-> "mobius", x |-> x, j |-> k[1], peak |-> k[2],
                  done |-> FALSE, res |-> Zero]

MobiusCall ==
    /\ call.fn = "mobius"
    /\ ~call.done
    /\ call' = [call EXCEPT !.res = mobius(call.x, call.j, call.peak), !.done = TRUE]
    /\ UNCHANGED <<opts, s, link, pc, in, out, desc, odesc, peak, td, nb_jobs, band,
                   ret, hist>>

SpecMobius == InitMobius /\ [][MobiusCall]_vars

(***************************************************************************)
(* The band bounds of do_tonemap_slice() for every job of an execute().    *)
(***************************************************************************)
InitSlice ==
    /\ PureIdle
    /\ \E h \in 1 .. MaxSliceHeight, n \in 1 .. MaxSliceJobs :
          call = [fn |-> "slice", height |-> h, nb_jobs |-> n, jobnr |-> 0,
                  bands |-> <<>>]

\* job call.jobnr computes its slice_start and slice_end
SliceCall ==
    /\ call.fn = "slice"
    /\ call.jobnr < call.nb_jobs
    /\ call' = [call EXCEPT
                  !.bands = Append(@, <<slice_start(call.height, call.jobnr, call.nb_jobs),
                                        slice_end(call.height, call.jobnr, call.nb_jobs)>>),
                  !.jobnr = @ + 1]
    /\ UNCHANGED <<opts, s, link, pc, in, out, desc, odesc, peak, td, nb_jobs, band,
                   ret, hist>>

SpecSlice == InitSlice /\ [][SliceCall]_vars

(***************************************************************************)
(* Properties.                                                             *)
(***************************************************************************)
Supported(tag) == tag \in LumaDesignated
AllBandsDone == \A j \in DOMAIN band : band[j].phase = "done"
Joined == pc \in {"free_in", "update_hdr", "filter_frame"}

\* C1: the desaturation override is scoped to one frame: between calls the
\* stored desat is the configured one, and a frame with a supported colour
\* space is processed with the configured desat whatever came before it.
C1_DesatScopedToFrame ==
    /\ (pc = "idle" => s.desat = opts.desat)
    /\ (pc = "running" /\ Supported(in.colorspace) => s.desat = opts.desat)

\* C2: with alpha only in the output format, once every band has run every
\* alpha sample of the output frame is 1.0.
C2_AlphaOpaque ==
    (Joined /\ HasAlpha(odesc) /\ ~HasAlpha(desc)) =>
        \A y \in Rows(out.height), x \in Cols : out.data[3][y][x] = One

\* C3: the output of the bands, for any job count and interleaving, is the
\* output of the single job of a run with nb_jobs = 1 on the same buffers.
C3_JobCountIndependent ==
    pc = "free_in" =>
        out.data = do_tonemap_slice(hist.fresh, in.data, s, td, out.height, 0, 1)

\* C4: a frame whose colour space is specified but has no entry in the
\* coefficient table is processed with desat = 0 when desat was configured.
C4_UnsupportedDisablesDesat ==
    (/\ pc = "running"
     /\ in.colorspace # "AVCOL_SPC_UNSPECIFIED"
     /\ ~Supported(in.colorspace)) => s.desat = Zero

BandRowsOf(b) == b[1] .. (b[2] - 1)

\* C5: the bands [H*i/N, H*(i+1)/N) of the N jobs are pairwise disjoint,
\* their union is [0, H), and each band ends where the next one starts.
C5_BandsPartition ==
    (call.fn = "slice" /\ call.jobnr = call.nb_jobs) =>
        /\ \A i \in 1 .. call.nb_jobs, k \in 1 .. call.nb_jobs :
              i # k => BandRowsOf(call.bands[i]) \cap BandRowsOf(call.bands[k]) = {}
        /\ UNION { BandRowsOf(call.bands[i]) : i \in 1 .. call.nb_jobs }
              = 0 .. (call.height - 1)
        /\ \A i \in 1 .. (call.nb_jobs - 1) : call.bands[i][2] = call.bands[i + 1][1]
        /\ call.bands[1][1] = 0
        /\ call.bands[call.nb_jobs][2] = call.height

C5_Witness ==
    /\ call.fn = "slice"
    /\ call.jobnr = call.nb_jobs
    /\ call.height = 5
    /\ call.nb_jobs = 3
    /\ call.bands = << <<0, 1>>, <<1, 3>>, <<3, 5>> >>

\* C6: on each failure return of filter_frame no band was dispatched, no
\* frame went downstream and each frame held was released exactly once; the
\* descriptor failure returns AVERROR_BUG with no output allocated, the
\* allocation failure returns AVERROR(ENOMEM), and the metadata copy failure
\* returns the copier's code with the output released as well.
C6_FailurePaths ==
    (pc = "idle" /\ hist.exit \in {"no_desc", "no_buffer", "copy_props"}) =>
        /\ ~hist.dispatched
        /\ hist.writes = {}
        /\ hist.hdr = 0
        /\ hist.emitted = 0
        /\ hist.inFree = 1
        /\ in = NullFrame
        /\ out = NullFrame
        /\ hist.outFree = hist.allocs
        /\ (hist.exit = "no_desc" =>
               hist.returned = "AVERROR_BUG" /\ hist.allocs = 0)
        /\ (hist.exit = "no_buffer" =>
               hist.returned = "AVERROR(ENOMEM)" /\ hist.allocs = 0)
        /\ (hist.exit = "copy_props" =>
               hist.returned = ret /\ ret \in CopyPropsErrors /\ hist.allocs = 1)

C6_Witness ==
    /\ pc = "idle"
    /\ hist.exit = "copy_props"
    /\ hist.returned = "AVERROR(EINVAL)"
    /\ hist.outFree = 1

\* the rule table of the param option
ParamRule(alg, p) ==
    IF alg = "TONEMAP_GAMMA" /\ p = NaN THEN <<9, 5>>
    ELSE IF alg = "TONEMAP_MOBIUS" /\ p = NaN THEN <<3, 10>>
    ELSE IF alg = "TONEMAP_REINHARD" /\ p # NaN THEN Rat(p[2] - p[1], p[1])
    ELSE IF p = NaN THEN One
    ELSE p

\* C7: after init the param is never the unset sentinel and is the value the
\* rule table gives for the algorithm and the raw param; init returns 0.
C7_InitRuleTable ==
    pc # "init" =>
        /\ s.param # NaN
        /\ s.param = ParamRule(opts.tonemap, opts.param)
        /\ s.tonemap = opts.tonemap
        /\ hist.returned = "0"

C7_Witness ==
    /\ pc = "idle"
    /\ opts.tonemap = "TONEMAP_REINHARD"
    /\ opts.param = <<1, 4>>
    /\ s.param = <<3, 1>>

\* C8: every sample a band writes lies in a row of its own range and inside
\* the frame, and no two bands write the same sample.
C8_BandIsolation ==
    /\ \A w \in hist.writes :
          /\ slice_start(out.height, w[1], nb_jobs) <= w[3]
          /\ w[3] < slice_end(out.height, w[1], nb_jobs)
          /\ w[3] \in Rows(out.height)
    /\ \A w1 \in hist.writes, w2 \in hist.writes :
          (w1[2] = w2[2] /\ w1[3] = w2[3]) => w1[1] = w2[1]
    /\ hist.oob = {}

\* C9: within one call the peak and the coefficients are resolved before any
\* band starts, the shared data is not modified while the bands run, and the
\* input is released, the HDR metadata updated and the output sent downstream
\* only after every band has completed, the update before the hand-off.
C9_Resolved ==
    hist.dispatched /\ pc = "running" =>
        /\ td.peak # Zero
        /\ td.peak = (IF s.peak = Zero THEN ff_determine_signal_peak(in) ELSE s.peak)
        /\ s.coeffs = AddrOfCoeffs(in.colorspace)
        /\ (in.colorspace = "AVCOL_SPC_UNSPECIFIED" => s.desat = Zero)
C9_AfterJoin ==
    /\ (hist.dispatched /\ (hist.inFree > 0 \/ hist.hdr > 0 \/ hist.emitted > 0)) =>
          AllBandsDone
    /\ (hist.emitted > 0 => hist.hdr = 1 /\ hist.inFree = 1 /\ out.hdr = td.peak)
    /\ (hist.hdr > 0 => hist.inFree = 1)
C9_SharedStable ==
    (pc = "running" /\ ~AllBandsDone) =>
        /\ UNCHANGED <<s, td, peak, desc, odesc, nb_jobs, in>>
        /\ pc' \in {"running", "crashed"}
C9_ForkJoin == [](C9_Resolved /\ C9_AfterJoin) /\ [][C9_SharedStable]_vars

C9_Witness ==
    /\ pc = "idle"
    /\ hist.emitted = 1
    /\ nb_jobs = 2
    /\ AllBandsDone
    /\ s.peak = Zero

\* C10: at peak = 1.0, for every knee j > 0 and every signal above the knee,
\* no divisor of mobius() is zero and the result is finite and not NaN.
C10_MobiusFinite ==
    (call.fn = "mobius" /\ call.done /\ call.peak = One /\ RGt(call.x, call.j)) =>
        /\ mobius_adiv(call.j, call.peak) # Zero
        /\ mobius_bdiv(call.peak) # Zero
        /\ RSub(mobius_b(call.j, call.peak), mobius_a(call.j, call.peak)) # Zero
        /\ RAdd(call.x, mobius_b(call.j, call.peak)) # Zero
        /\ IsFinite(call.res)

====
